---- MODULE Spec2Model ----
(***************************************************************************)
(* Model of mpisppy/utils/sputils.py: the hub-and-spoke driver             *)
(* spin_the_wheel with make_comms, and the scenario rank maps              *)
(* (scens_to_ranks, _TreeNode, _ScenTree).                                 *)
(***************************************************************************)
EXTENDS Integers, Sequences, FiniteSets, TLC

\* ------------------------------------------------------------------ bounds
MaxWorld == 4
MaxSpokes == 3
MaxScens == 8
MaxStages == 4
MaxProc == 6
MaxMyRank == 1
MaxFlatScens == 16
MaxFlatProc == 12

\* --------------------------------------------------------------- variables
VARIABLES
    hub_dict,            \* keys present in hub_dict
    list_of_spoke_dict,  \* sequence of spoke dicts (id, keys present)
    n_world,             \* fullcomm.Get_size()
    pc,                  \* per rank: position in spin_the_wheel
    arrived,             \* per collective: ranks that have entered it
    intercomm,           \* per rank: its cylinder communicator (ranks in order)
    intracomm,           \* per rank: its role communicator (ranks in order)
    rank_inter,          \* per rank: intercomm.Get_rank()
    rank_intra,          \* per rank: intracomm.Get_rank()
    sp_class,            \* per rank: where its hub/spoke class was read from
    opt_class,           \* per rank: where its opt class was read from
    opt_dict,            \* per rank: the dictionary that controlled creation
    opt,                 \* per rank: the opt object (mpicomm it was given)
    spcomm,              \* per rank: the hub/spoke object
    log,                 \* per rank: operations called on spcomm, in order
    ret,                 \* per rank: what spin_the_wheel returned
    scen_count,          \* scens_to_ranks: number of scenarios
    BFs,                 \* branching factors (<<>> stands for None)
    ScenNames,           \* scenario names given to _ScenTree
    n_proc,              \* scen_names_to_ranks: number of ranks
    myrank,              \* scen_names_to_ranks: the caller's rank
    tree,                \* the _ScenTree object
    tpc,                 \* position in _ScenTree / scen_names_to_ranks
    TermRanks,           \* scen_names_to_ranks: rank range per terminal node
    FirstRank,           \* scen_names_to_ranks: first rank per node name
    retval,              \* scen_names_to_ranks: node name -> scenario -> rank
    masterslices,        \* scen_names_to_ranks: slices per terminal node
    idx,                 \* scen_names_to_ranks: index of the running loop
    result               \* what scen_names_to_ranks returned or raised

wheelVars == <<hub_dict, list_of_spoke_dict, n_world, pc, arrived, intercomm,
               intracomm, rank_inter, rank_intra, sp_class, opt_class,
               opt_dict, opt, spcomm, log, ret>>

treeVars == <<scen_count, BFs, ScenNames, n_proc, myrank, tree, tpc, TermRanks, FirstRank,
              retval, masterslices, idx, result>>

vars == <<wheelVars, treeVars>>

None == "None"
\* a dictionary that is not there
NoDict == [name |-> "None", at |-> -1, keys |-> {}]
\* a communicator, an opt object, a hub/spoke object that is not there
NoComm == <<>>
NoOpt == [class |-> <<NoDict, None>>, mpicomm |-> NoComm]
NoSpcomm == [class |-> <<NoDict, None>>, opt |-> NoOpt, fullcomm |-> {},
             intercomm |-> NoComm, intracomm |-> NoComm, args |-> 0,
             spokes |-> <<>>]

\* ------------------------------------------------------- python list helper
\* list[at] with Python semantics: 0-based, negative indices count from the
\* end, anything else is an IndexError.
PyIndex(list, at) ==
    IF at >= 0 /\ at < Len(list) THEN list[at + 1]
    ELSE IF at < 0 /\ -at <= Len(list) THEN list[Len(list) + at + 1]
    ELSE [name |-> "IndexError", at |-> at, keys |-> {}]

\* ------------------------------------------------------------ MPI helpers
Ranks == 0 .. (n_world - 1)

\* The members of S in ascending order of key (keys are distinct).
RECURSIVE SortByKey(_, _)
SortByKey(S, key) ==
    IF S = {} THEN <<>>
    ELSE LET m == CHOOSE x \in S : \A y \in S : key[x] <= key[y]
         IN  <<m>> \o SortByKey(S \ {m}, key)

\* fullcomm.Split(key, color): the new communicator of rank g holds the ranks
\* of the same color, ordered by key.
Split(g, color, key) ==
    SortByKey({h \in Ranks : color[h] = color[g]}, key)

\* comm.Get_rank(): position of g in the communicator
Get_rank(comm, g) == (CHOOSE i \in 1 .. Len(comm) : comm[i] = g) - 1

\* ------------------------------------------------------------- make_comms
n_spokes == Len(list_of_spoke_dict)
nsp1 == n_spokes + 1

\* variant: the two colors swapped
Intercolor_swapped(rank_global) == rank_global % nsp1

\* line 140: color of the intercomm split
Intercolor(rank_global) == rank_global \div nsp1
\* line 141: color of the intracomm split
Intracolor(rank_global) == rank_global % nsp1

ProcCountOK == n_world % nsp1 = 0

\* ---------------------------------------------------------- spin_the_wheel
HubKeys == {"hub_class", "opt_class"}
SpokeKeys == {"spoke_class", "opt_class"}

SpokeDicts(n) == [1 .. n -> SUBSET SpokeKeys]

\* variant: the spoke dictionaries are not checked
KeysOK_hub_only ==
    /\ "hub_class" \in hub_dict.keys
    /\ "opt_class" \in hub_dict.keys

\* lines 32-60: the key checks
KeysOK ==
    /\ "hub_class" \in hub_dict.keys
    /\ "opt_class" \in hub_dict.keys
    /\ \A i \in 1 .. Len(list_of_spoke_dict) :
          /\ "spoke_class" \in list_of_spoke_dict[i].keys
          /\ "opt_class" \in list_of_spoke_dict[i].keys

WheelInit ==
    /\ \E ks \in SUBSET HubKeys :
          hub_dict = [name |-> "hub_dict", at |-> -1, keys |-> ks]
    /\ \E n \in 0 .. MaxSpokes : \E ks \in SpokeDicts(n) :
          list_of_spoke_dict =
              [i \in 1 .. n |-> [name |-> "spoke_dict", at |-> i - 1, keys |-> ks[i]]]
    /\ n_world \in 1 .. MaxWorld
    /\ pc = [g \in Ranks |-> "start"]
    /\ arrived = [c \in {"split_inter", "split_intra", "make_windows", "Barrier"} |-> {}]
    /\ intercomm = [g \in Ranks |-> NoComm]
    /\ intracomm = [g \in Ranks |-> NoComm]
    /\ rank_inter = [g \in Ranks |-> -1]
    /\ rank_intra = [g \in Ranks |-> -1]
    /\ sp_class = [g \in Ranks |-> <<NoDict, None>>]
    /\ opt_class = [g \in Ranks |-> <<NoDict, None>>]
    /\ opt_dict = [g \in Ranks |-> NoDict]
    /\ opt = [g \in Ranks |-> NoOpt]
    /\ spcomm = [g \in Ranks |-> NoSpcomm]
    /\ log = [g \in Ranks |-> <<>>]
    /\ ret = [g \in Ranks |-> [spcomm |-> NoSpcomm, opt_dict |-> NoDict]]

Goto(g, l) == pc' = [pc EXCEPT ![g] = l]
Call(g, op) == log' = [log EXCEPT ![g] = Append(@, op)]
Enter(c, g) == arrived' = [arrived EXCEPT ![c] = @ \cup {g}]

config == <<hub_dict, list_of_spoke_dict, n_world>>
comms == <<intercomm, intracomm, rank_inter, rank_intra>>
roles == <<sp_class, opt_class, opt_dict>>

\* lines 32-60
CheckKeys(g) ==
    /\ pc[g] = "start"
    /\ IF KeysOK THEN Goto(g, "make_comms") ELSE Goto(g, "RuntimeError")
    /\ UNCHANGED <<config, arrived, comms, roles, opt, spcomm, log, ret>>

\* make_comms, lines 130-135
CheckProcCount(g) ==
    /\ pc[g] = "make_comms"
    /\ IF ProcCountOK THEN Goto(g, "split_inter") ELSE Goto(g, "RuntimeError")
    /\ UNCHANGED <<config, arrived, comms, roles, opt, spcomm, log, ret>>

\* make_comms, line 140: the rank enters the collective Split
SplitInterCall(g) ==
    /\ pc[g] = "split_inter"
    /\ Enter("split_inter", g)
    /\ Goto(g, "in_split_inter")
    /\ UNCHANGED <<config, comms, roles, opt, spcomm, log, ret>>

\* make_comms, line 140: Split returns once every rank of fullcomm called it
SplitInterReturn(g) ==
    /\ pc[g] = "in_split_inter"
    /\ arrived["split_inter"] = Ranks
    /\ intercomm' = [intercomm EXCEPT ![g] =
           Split(g, [h \in Ranks |-> Intercolor(h)], [h \in Ranks |-> h])]
    /\ Goto(g, "split_intra")
    /\ UNCHANGED <<config, arrived, intracomm, rank_inter, rank_intra, roles,
                   opt, spcomm, log, ret>>

\* make_comms, line 141
SplitIntraCall(g) ==
    /\ pc[g] = "split_intra"
    /\ Enter("split_intra", g)
    /\ Goto(g, "in_split_intra")
    /\ UNCHANGED <<config, comms, roles, opt, spcomm, log, ret>>

\* make_comms, lines 141-142, and spin_the_wheel, lines 69-71
SplitIntraReturn(g) ==
    /\ pc[g] = "in_split_intra"
    /\ arrived["split_intra"] = Ranks
    /\ LET comm == Split(g, [h \in Ranks |-> Intracolor(h)], [h \in Ranks |-> h])
       IN  /\ intracomm' = [intracomm EXCEPT ![g] = comm]
           /\ rank_intra' = [rank_intra EXCEPT ![g] = Get_rank(comm, g)]
    /\ rank_inter' = [rank_inter EXCEPT ![g] = Get_rank(intercomm[g], g)]
    /\ Goto(g, "assign")
    /\ UNCHANGED <<config, arrived, intercomm, roles, opt, spcomm, log, ret>>

\* variant: the spoke list indexed by rank_inter instead of rank_inter - 1
RoleDict_off_by_one(g) ==
    IF rank_inter[g] = 0 THEN hub_dict
    ELSE PyIndex(list_of_spoke_dict, rank_inter[g])

\* lines 74-86: the dictionary this rank reads its classes from
RoleDict(g) ==
    IF rank_inter[g] = 0 THEN hub_dict
    ELSE PyIndex(list_of_spoke_dict, rank_inter[g] - 1)

\* lines 73-86
AssignRole(g) ==
    /\ pc[g] = "assign"
    /\ LET d == RoleDict(g)
       IN  IF d.name = "IndexError"
           THEN Goto(g, "IndexError") /\ UNCHANGED roles
           ELSE /\ Goto(g, "construct")
                /\ sp_class' = [sp_class EXCEPT ![g] =
                       IF rank_inter[g] = 0 THEN <<d, "hub_class">>
                                            ELSE <<d, "spoke_class">>]
                /\ opt_class' = [opt_class EXCEPT ![g] = <<d, "opt_class">>]
                /\ opt_dict' = [opt_dict EXCEPT ![g] = d]
    /\ UNCHANGED <<config, arrived, comms, opt, spcomm, log, ret>>

\* variant: intercomm and intracomm passed in each other's place
SpcommArgs_swapped(g, o) ==
    IF rank_inter[g] = 0
    THEN [class |-> sp_class[g], opt |-> o, fullcomm |-> Ranks,
          intercomm |-> intracomm[g], intracomm |-> intercomm[g],
          args |-> 5, spokes |-> list_of_spoke_dict]
    ELSE [class |-> sp_class[g], opt |-> o, fullcomm |-> Ranks,
          intercomm |-> intracomm[g], intracomm |-> intercomm[g],
          args |-> 4, spokes |-> <<>>]

\* lines 94-98: the object sp_class builds from its arguments
SpcommArgs(g, o) ==
    IF rank_inter[g] = 0
    THEN [class |-> sp_class[g], opt |-> o, fullcomm |-> Ranks,
          intercomm |-> intercomm[g], intracomm |-> intracomm[g],
          args |-> 5, spokes |-> list_of_spoke_dict]
    ELSE [class |-> sp_class[g], opt |-> o, fullcomm |-> Ranks,
          intercomm |-> intercomm[g], intracomm |-> intracomm[g],
          args |-> 4, spokes |-> <<>>]

\* lines 88-98
Construct(g) ==
    /\ pc[g] = "construct"
    /\ opt' = [opt EXCEPT ![g] = [class |-> opt_class[g], mpicomm |-> intracomm[g]]]
    /\ spcomm' = [spcomm EXCEPT ![g] = SpcommArgs(g, opt'[g])]
    /\ Goto(g, "make_windows")
    /\ UNCHANGED <<config, arrived, comms, roles, log, ret>>

\* The ranks with which make_windows() is collective: those of the cylinder.
WindowsComm(g) == {spcomm[g].intercomm[i] : i \in 1 .. Len(spcomm[g].intercomm)}

\* line 101: the rank enters make_windows()
MakeWindowsCall(g) ==
    /\ pc[g] = "make_windows"
    /\ Call(g, "make_windows")
    /\ Enter("make_windows", g)
    /\ Goto(g, "in_make_windows")
    /\ UNCHANGED <<config, comms, roles, opt, spcomm, ret>>

\* line 102
CallsSetupHub(g) == rank_inter[g] = 0

\* line 101: make_windows() returns once its communicator has entered it
MakeWindowsReturn(g) ==
    /\ pc[g] = "in_make_windows"
    /\ WindowsComm(g) \subseteq arrived["make_windows"]
    /\ Call(g, "make_windows.return")
    /\ IF CallsSetupHub(g) THEN Goto(g, "setup_hub") ELSE Goto(g, "main")
    /\ UNCHANGED <<config, arrived, comms, roles, opt, spcomm, ret>>

\* lines 102-103
SetupHub(g) ==
    /\ pc[g] = "setup_hub"
    /\ Call(g, "setup_hub")
    /\ Goto(g, "main")
    /\ UNCHANGED <<config, arrived, comms, roles, opt, spcomm, ret>>

\* line 106: the rank enters main()
MainCall(g) ==
    /\ pc[g] = "main"
    /\ Call(g, "main")
    /\ Goto(g, "in_main")
    /\ UNCHANGED <<config, arrived, comms, roles, opt, spcomm, ret>>

\* When main() may return: a hub's at any time, a spoke's once the hub of its
\* cylinder has signalled termination.
MainMayReturn(g) ==
    \/ spcomm[g].class[2] = "hub_class"
    \/ \E i \in 1 .. Len(log[spcomm[g].intercomm[1]]) :
          log[spcomm[g].intercomm[1]][i] = "send_terminate"

\* variant: the test is on the global rank, as the timer lines' test is
CallsSendTerminate_global(g) == g = 0

\* variant: the test is inverted
CallsSendTerminate_inverted(g) == rank_inter[g] # 0

\* line 107
CallsSendTerminate(g) == rank_inter[g] = 0

\* line 106: main() returns
MainReturn(g) ==
    /\ pc[g] = "in_main"
    /\ MainMayReturn(g)
    /\ Call(g, "main.return")
    /\ IF CallsSendTerminate(g) THEN Goto(g, "send_terminate") ELSE Goto(g, "finalize")
    /\ UNCHANGED <<config, arrived, comms, roles, opt, spcomm, ret>>

\* lines 107-108
SendTerminate(g) ==
    /\ pc[g] = "send_terminate"
    /\ Call(g, "send_terminate")
    /\ Goto(g, "finalize")
    /\ UNCHANGED <<config, arrived, comms, roles, opt, spcomm, ret>>

\* line 111
Finalize(g) ==
    /\ pc[g] = "finalize"
    /\ Call(g, "finalize")
    /\ Goto(g, "Barrier")
    /\ UNCHANGED <<config, arrived, comms, roles, opt, spcomm, ret>>

\* variant: the barrier is on the cylinder's communicator
BarrierComm_inter(g) == {spcomm[g].intercomm[i] : i \in 1 .. Len(spcomm[g].intercomm)}

\* line 115: the communicator the barrier is on
BarrierComm(g) == spcomm[g].fullcomm

\* line 115: the rank enters fullcomm.Barrier()
BarrierCall(g) ==
    /\ pc[g] = "Barrier"
    /\ Enter("Barrier", g)
    /\ Goto(g, "in_Barrier")
    /\ UNCHANGED <<config, comms, roles, opt, spcomm, log, ret>>

\* line 115: the barrier releases the rank once its communicator has entered
BarrierReturn(g) ==
    /\ pc[g] = "in_Barrier"
    /\ BarrierComm(g) \subseteq arrived["Barrier"]
    /\ Goto(g, "hub_finalize")
    /\ UNCHANGED <<config, arrived, comms, roles, opt, spcomm, log, ret>>

\* line 118
HubFinalize(g) ==
    /\ pc[g] = "hub_finalize"
    /\ Call(g, "hub_finalize")
    /\ Goto(g, "free_windows")
    /\ UNCHANGED <<config, arrived, comms, roles, opt, spcomm, ret>>

\* line 120
FreeWindows(g) ==
    /\ pc[g] = "free_windows"
    /\ Call(g, "free_windows")
    /\ Goto(g, "return")
    /\ UNCHANGED <<config, arrived, comms, roles, opt, spcomm, ret>>

\* line 124
Return(g) ==
    /\ pc[g] = "return"
    /\ ret' = [ret EXCEPT ![g] = [spcomm |-> spcomm[g], opt_dict |-> opt_dict[g]]]
    /\ Goto(g, "done")
    /\ UNCHANGED <<config, arrived, comms, roles, opt, spcomm, log>>

\* ------------------------------------------------------------ float helper
\* Python's / is IEEE-754 double division and int() truncates.  For the
\* quotient avg = s / n of two small integers and an integer i, int(i * avg)
\* is floor(i*s/n) unless i*s/n is an integer m, avg was rounded down, and
\* the product i * avg rounds to a double below m: then it is m - 1.
RECURSIVE ExpUp(_, _)
ExpUp(s, n) == IF 2 * n <= s THEN 1 + ExpUp(s, 2 * n) ELSE 0

RECURSIVE ExpDown(_, _)
ExpDown(s, n) == IF s < n THEN ExpDown(2 * s, n) - 1 ELSE 0

\* floor(log2(s / n)) for s, n >= 1: the exponent of the double s / n
Exponent(s, n) == IF s >= n THEN ExpUp(s, n) ELSE ExpDown(s, n)

RECURSIVE Pow2(_)
Pow2(k) == IF k <= 0 THEN 1 ELSE 2 * Pow2(k - 1)

\* (x * 2^k) mod m
RECURSIVE DoubleMod(_, _, _)
DoubleMod(x, k, m) == IF k <= 0 THEN x % m ELSE DoubleMod((2 * x) % m, k - 1, m)

\* s / n (true division): the double nearest to the quotient, kept as the
\* pair it was computed from
TrueDiv(s, n) == [num |-> s, den |-> n]

\* whether the 53-bit significand of s / n was rounded down (to nearest,
\* ties to even), and the remainder that was dropped
DroppedRemainder(s, n) == DoubleMod(s % n, 52 - Exponent(s, n), n)
SignificandOdd(s, n) == DoubleMod(s % (2 * n), 52 - Exponent(s, n), 2 * n) >= n
RoundedDown(s, n) ==
    LET R == DroppedRemainder(s, n)
    IN  R > 0 /\ (2 * R < n \/ (2 * R = n /\ ~SignificandOdd(s, n)))

\* int(i * avg)
IntTimes(i, avg) ==
    LET s == avg.num
        n == avg.den
    IN  IF s = 0 \/ i = 0 THEN 0
        ELSE IF (i * s) % n # 0 THEN (i * s) \div n
        ELSE LET m == (i * s) \div n
                 em == Exponent(m, 1)
                 below == IF Pow2(em) = m THEN em - 1 ELSE em
                 d == below - Exponent(s, n)
             IN  IF RoundedDown(s, n)
                    /\ 2 * i * DroppedRemainder(s, n) > n * Pow2(d)
                 THEN m - 1
                 ELSE m

\* Python range(start, stop)
range(start, stop) == [start |-> start, stop |-> stop]
RangeLen(r) == IF r.stop > r.start THEN r.stop - r.start ELSE 0
RangeSet(r) == r.start .. (r.stop - 1)

\* [range(int(j*avg), int((j+1)*avg)) for j in range(count)]
Ranges(avg, count) ==
    [j \in 1 .. count |-> range(IntTimes(j - 1, avg), IntTimes(j, avg))]

\* ---------------------------------------------------------------- _TreeNode
ROOT == <<>>

RECURSIVE Prod(_)
Prod(s) == IF s = <<>> THEN 1 ELSE Head(s) * Prod(Tail(s))

RECURSIVE Concat(_)
Concat(ss) == IF ss = <<>> THEN <<>> ELSE Head(ss) \o Concat(Tail(ss))

\* line 545
KidFirst(scenfirst, b, numscens, bf) == (b * numscens) \div bf
\* line 546
KidLast(scenfirst, b, numscens, bf) == (((b + 1) * numscens) \div bf) - 1

\* _TreeNode.__init__; ParentStage is Parent.stage, or -1 when Parent is None
RECURSIVE TreeNode(_, _, _, _, _)
TreeNode(ParentStage, scenfirst, scenlast, bfs, name) ==
    LET stage == ParentStage + 1
        bf == bfs[stage + 1]
        numscens == scenlast - scenfirst + 1
    IN  [scenfirst |-> scenfirst,
         scenlast |-> scenlast,
         name |-> name,
         stage |-> stage,
         kids |-> IF stage < Len(bfs) - 1
                  THEN [b \in 1 .. bf |->
                           TreeNode(stage,
                                    KidFirst(scenfirst, b - 1, numscens, bf),
                                    KidLast(scenfirst, b - 1, numscens, bf),
                                    bfs, Append(name, b - 1))]
                  ELSE <<>>]

\* ---------------------------------------------------------------- _ScenTree
\* _ScenTree.__init__._nonleaves
RECURSIVE Nonleaves(_, _)
Nonleaves(nd, bfs) ==
    <<nd>> \o (IF nd.stage < Len(bfs) - 1
               THEN Concat([k \in 1 .. Len(nd.kids) |-> Nonleaves(nd.kids[k], bfs)])
               ELSE <<>>)

IsTerminal(nd, bfs) == nd.stage = Len(bfs) - 1

\* lines 558, 560: the assertions of _ScenTree.__init__
ScenTreeAsserts(bfs, names) == Len(names) = Prod(bfs) /\ Len(bfs) > 1

\* _ScenTree.__init__, past its assertions
ScenTree(bfs, names) ==
    LET rootnode == TreeNode(-1, 0, Len(names) - 1, bfs, ROOT)
        nonleaves == Nonleaves(rootnode, bfs)
    IN  [ScenNames |-> names,
         NumScens |-> Len(names),
         NumStages |-> Len(bfs),
         BFs |-> bfs,
         rootnode |-> rootnode,
         nonleaves |-> nonleaves,
         NonLeafTerminals |-> SelectSeq(nonleaves, LAMBDA nd : IsTerminal(nd, bfs))]

NoTree == [ScenNames |-> <<>>, NumScens |-> 0, NumStages |-> 0, BFs |-> <<>>,
           rootnode |-> <<>>, nonleaves |-> <<>>, NonLeafTerminals |-> <<>>]

\* [self.ScenNames[s] for s in range(nd.scenfirst, nd.scenlast+1)]
NdScenList(self, nd) ==
    [s \in 1 .. (nd.scenlast - nd.scenfirst + 1) |-> self.ScenNames[nd.scenfirst + s]]

\* ------------------------------------------------------ scen_names_to_ranks
Raised(kind) == [status |-> kind, retval |-> <<>>, slices |-> <<>>,
                 FirstRank |-> <<>>, none |-> {}]

\* lines 581-584: the single-rank case
SingleRank(self, r) ==
    [retval |-> [nm \in {self.nonleaves[i].name : i \in 1 .. Len(self.nonleaves)} |->
                    [s \in {self.ScenNames[i] : i \in 1 .. Len(self.ScenNames)} |-> r]],
     status |-> "returned", slices |-> <<>>, FirstRank |-> <<>>,
     none |-> {"slices", "FirstRank"}]

\* line 591: avg < 1 for avg = n_proc / len(TermNodes)
TooFewRanks(self, np) == np < Len(self.NonLeafTerminals)

\* lines 590, 594
TermRanksOf(self, np) ==
    Ranges(TrueDiv(np, Len(self.NonLeafTerminals)), Len(self.NonLeafTerminals))

\* lines 596, 605
FirstRankOf(self, np) ==
    [nm \in {ROOT} \cup {self.NonLeafTerminals[i].name :
                            i \in 1 .. Len(self.NonLeafTerminals)} |->
        IF nm = ROOT THEN 0
        ELSE LET i == CHOOSE i \in 1 .. Len(self.NonLeafTerminals) :
                          self.NonLeafTerminals[i].name = nm
             IN  IntTimes(i - 1, TrueDiv(np, Len(self.NonLeafTerminals)))]

\* line 618: TermRanks[i][k], the rank recorded under the terminal node
NodeRank(tr, k) == tr.start + k

\* variant: the index k is recorded under ROOT instead of the rank
RootRank_index(tr, k) == k

\* line 619: TermRanks[i][k], the rank recorded under ROOT
RootRank(tr, k) == tr.start + k

\* lines 607-619: one iteration of the loop over the terminal nodes
TermIter(self, tr, i, rv, ms) ==
    LET nd == self.NonLeafTerminals[i]
        ndnumscens == nd.scenlast - nd.scenfirst + 1
        ndScenList == NdScenList(self, nd)
        nranks == RangeLen(tr[i])
        avg == TrueDiv(ndnumscens, nranks)
        slices == Ranges(avg, nranks)
        written == {s \in 0 .. (ndnumscens - 1) :
                       \E k \in 1 .. nranks : s \in RangeSet(slices[k])}
        lastk(s) == CHOOSE k \in 1 .. nranks :
                        /\ s \in RangeSet(slices[k])
                        /\ \A k2 \in 1 .. nranks :
                              s \in RangeSet(slices[k2]) => k2 <= k
        relOf(sn) == CHOOSE s \in written : ndScenList[s + 1] = sn
        ndmap == [sn \in {ndScenList[s + 1] : s \in written} |->
                     NodeRank(tr[i], lastk(relOf(sn)) - 1)]
        rootmap == [sn \in {ndScenList[s + 1] : s \in written} |->
                       RootRank(tr[i], lastk(relOf(sn)) - 1)]
    IN  IF nranks = 0 THEN Raised("ZeroDivisionError")
        ELSE [status |-> "ok",
              retval |-> [nm \in DOMAIN rv \cup {nd.name} |->
                             IF nm = nd.name THEN ndmap
                             ELSE IF nm = ROOT THEN rootmap @@ rv[ROOT]
                             ELSE rv[nm]],
              masterslices |-> Append(ms,
                  [j \in 1 .. nranks |->
                      range(nd.scenfirst + slices[j].start,
                            nd.scenfirst + slices[j].stop)])]

\* lines 621-629: one iteration of the loop over the non-leaf nodes
RestIter(self, ni, rv, fr) ==
    LET nd == self.nonleaves[ni]
        ndScenList == NdScenList(self, nd)
        names == {ndScenList[s] : s \in 1 .. Len(ndScenList)}
    IN  IF IsTerminal(nd, self.BFs) \/ nd.name = ROOT
        THEN [status |-> "ok", retval |-> rv, FirstRank |-> fr]
        ELSE IF \E sn \in names : sn \notin DOMAIN rv[ROOT]
        THEN Raised("KeyError")
        ELSE IF nd.kids = <<>> THEN Raised("IndexError")
        ELSE IF nd.kids[1].name \notin DOMAIN fr THEN Raised("KeyError")
        ELSE [status |-> "ok",
              retval |-> [nm \in DOMAIN rv \cup {nd.name} |->
                             IF nm = nd.name THEN [sn \in names |-> rv[ROOT][sn]]
                             ELSE rv[nm]],
              FirstRank |-> [nm \in DOMAIN fr \cup {nd.name} |->
                                IF nm = nd.name THEN fr[nd.kids[1].name]
                                ELSE fr[nm]]]

RECURSIVE TermLoop(_, _, _, _, _)
TermLoop(self, tr, i, rv, ms) ==
    IF i > Len(self.NonLeafTerminals)
    THEN [status |-> "ok", retval |-> rv, masterslices |-> ms]
    ELSE LET r == TermIter(self, tr, i, rv, ms)
         IN  IF r.status # "ok" THEN r
             ELSE TermLoop(self, tr, i + 1, r.retval, r.masterslices)

RECURSIVE RestLoop(_, _, _, _)
RestLoop(self, ni, rv, fr) ==
    IF ni > Len(self.nonleaves)
    THEN [status |-> "ok", retval |-> rv, FirstRank |-> fr]
    ELSE LET r == RestIter(self, ni, rv, fr)
         IN  IF r.status # "ok" THEN r
             ELSE RestLoop(self, ni + 1, r.retval, r.FirstRank)

Returned(rv, ms, fr) ==
    [status |-> "returned", retval |-> rv, slices |-> ms, FirstRank |-> fr,
     none |-> {}]

\* _ScenTree.scen_names_to_ranks as a whole
scen_names_to_ranks(self, np, r) ==
    IF np = 1 THEN SingleRank(self, r)
    ELSE IF TooFewRanks(self, np) THEN Raised("RuntimeError")
    ELSE LET t1 == TermLoop(self, TermRanksOf(self, np), 1, (ROOT :> <<>>), <<>>)
         IN  IF t1.status # "ok" THEN Raised(t1.status)
             ELSE LET t2 == RestLoop(self, 1, t1.retval, FirstRankOf(self, np))
                  IN  IF t2.status # "ok" THEN Raised(t2.status)
                      ELSE Returned(t2.retval, t1.masterslices, t2.FirstRank)

\* the inputs: branching factors of 2 .. MaxStages stages with at most
\* MaxScens scenarios, and one name per scenario
RECURSIVE BFSeqs(_, _)
BFSeqs(len, budget) ==
    IF len = 0 THEN {<<>>}
    ELSE UNION {{<<b>> \o rest : rest \in BFSeqs(len - 1, budget \div b)} :
                   b \in 1 .. budget}

BFsInputs == UNION {BFSeqs(len, MaxScens) : len \in 2 .. MaxStages}

\* inputs at which the rounding of i * avg shows: 15 scenarios of one
\* terminal node on 11 ranks, and 11 terminal nodes on 15 ranks
BigInputs == {<<<<1, 15>>, 11>>, <<<<11, 2>>, 15>>}

TreeInputs == (BFsInputs \X (1 .. MaxProc)) \cup BigInputs

NamesFor(n) == [i \in 1 .. n |-> <<"ID", i - 1>>]

TreeIdle ==
    /\ scen_count = 0
    /\ BFs = <<>>
    /\ ScenNames = <<>>
    /\ n_proc = 0
    /\ myrank = 0
    /\ tree = NoTree
    /\ tpc = "idle"
    /\ TermRanks = <<>>
    /\ FirstRank = <<>>
    /\ retval = <<>>
    /\ masterslices = <<>>
    /\ idx = 0
    /\ result = Raised("None")

WheelIdle ==
    /\ hub_dict = NoDict
    /\ list_of_spoke_dict = <<>>
    /\ n_world = 0
    /\ pc = <<>>
    /\ arrived = <<>>
    /\ intercomm = <<>>
    /\ intracomm = <<>>
    /\ rank_inter = <<>>
    /\ rank_intra = <<>>
    /\ sp_class = <<>>
    /\ opt_class = <<>>
    /\ opt_dict = <<>>
    /\ opt = <<>>
    /\ spcomm = <<>>
    /\ log = <<>>
    /\ ret = <<>>

TreeInit ==
    /\ \E in \in TreeInputs : BFs = in[1] /\ n_proc = in[2]
    /\ ScenNames = NamesFor(Prod(BFs))
    /\ scen_count = Len(ScenNames)
    /\ myrank \in 0 .. MaxMyRank
    /\ tree = NoTree
    /\ tpc = "init"
    /\ TermRanks = <<>>
    /\ FirstRank = <<>>
    /\ retval = <<>>
    /\ masterslices = <<>>
    /\ idx = 0
    /\ result = Raised("None")

inputs == <<scen_count, BFs, ScenNames, n_proc, myrank>>

\* tree = _ScenTree(BFs, ScenNames)
BuildTree ==
    /\ tpc = "init"
    /\ tree' = ScenTree(BFs, ScenNames)
    /\ tpc' = "built"
    /\ UNCHANGED <<inputs, TermRanks, FirstRank, retval, masterslices, idx, result>>

\* lines 580-584
ReturnSingleRank ==
    /\ tpc = "built"
    /\ n_proc = 1
    /\ result' = SingleRank(tree, myrank)
    /\ retval' = result'.retval
    /\ tpc' = "returned"
    /\ UNCHANGED <<inputs, tree, TermRanks, FirstRank, masterslices, idx>>

\* lines 586-606
AssignTermRanks ==
    /\ tpc = "built"
    /\ n_proc # 1
    /\ IF TooFewRanks(tree, n_proc)
       THEN /\ tpc' = "raised"
            /\ result' = Raised("RuntimeError")
            /\ UNCHANGED <<TermRanks, FirstRank, retval, masterslices, idx>>
       ELSE /\ TermRanks' = TermRanksOf(tree, n_proc)
            /\ FirstRank' = FirstRankOf(tree, n_proc)
            /\ retval' = (ROOT :> <<>>)
            /\ masterslices' = <<>>
            /\ idx' = 1
            /\ tpc' = "term_loop"
            /\ UNCHANGED result
    /\ UNCHANGED <<inputs, tree>>

\* lines 607-619, one terminal node
TermNodeStep ==
    /\ tpc = "term_loop"
    /\ idx <= Len(tree.NonLeafTerminals)
    /\ LET r == TermIter(tree, TermRanks, idx, retval, masterslices)
       IN  IF r.status # "ok"
           THEN /\ tpc' = "raised"
                /\ result' = Raised(r.status)
                /\ UNCHANGED <<retval, masterslices, idx>>
           ELSE /\ retval' = r.retval
                /\ masterslices' = r.masterslices
                /\ idx' = IF idx = Len(tree.NonLeafTerminals) THEN 1 ELSE idx + 1
                /\ tpc' = IF idx = Len(tree.NonLeafTerminals)
                          THEN "rest_loop" ELSE "term_loop"
                /\ UNCHANGED result
    /\ UNCHANGED <<inputs, tree, TermRanks, FirstRank>>

\* lines 621-629, one non-leaf node
RestNodeStep ==
    /\ tpc = "rest_loop"
    /\ idx <= Len(tree.nonleaves)
    /\ LET r == RestIter(tree, idx, retval, FirstRank)
       IN  IF r.status # "ok"
           THEN /\ tpc' = "raised"
                /\ result' = Raised(r.status)
                /\ UNCHANGED <<retval, FirstRank, idx>>
           ELSE /\ retval' = r.retval
                /\ FirstRank' = r.FirstRank
                /\ idx' = idx + 1
                /\ UNCHANGED <<tpc, result>>
    /\ UNCHANGED <<inputs, tree, TermRanks, masterslices>>

\* line 631
ReturnResult ==
    /\ tpc = "rest_loop"
    /\ idx > Len(tree.nonleaves)
    /\ result' = Returned(retval, masterslices, FirstRank)
    /\ tpc' = "returned"
    /\ UNCHANGED <<inputs, tree, TermRanks, FirstRank, retval, masterslices, idx>>

\* ---------------------------------------------------------- scens_to_ranks
\* the methods class _ScenTree defines (lines 555, 574)
ScenTreeMethods == {"__init__", "scen_names_to_ranks"}

\* line 524: the method scens_to_ranks calls on the tree
CalledMethod == "scen_name_to_rank"

\* line 507
TooManyRanks(count, np) == count < np

\* lines 515-516
FlatSlices(count, np) == Ranges(TrueDiv(count, np), np)

\* the inputs: any scenario count without BFs, or BFs and their product
FlatInputs ==
    {<<c, <<>>>> : c \in 1 .. MaxFlatScens} \cup {<<Prod(b), b>> : b \in BFsInputs}

FlatInit ==
    /\ \E in \in FlatInputs : scen_count = in[1] /\ BFs = in[2]
    /\ n_proc \in 1 .. MaxFlatProc
    /\ myrank \in 0 .. MaxMyRank
    /\ ScenNames = <<>>
    /\ tree = NoTree
    /\ tpc = "scens_to_ranks"
    /\ TermRanks = <<>>
    /\ FirstRank = <<>>
    /\ retval = <<>>
    /\ masterslices = <<>>
    /\ idx = 0
    /\ result = Raised("None")

\* lines 507-511
CheckScenCount ==
    /\ tpc = "scens_to_ranks"
    /\ IF TooManyRanks(scen_count, n_proc)
       THEN tpc' = "raised" /\ result' = Raised("RuntimeError")
       ELSE tpc' = "checked" /\ UNCHANGED result
    /\ UNCHANGED <<inputs, tree, TermRanks, FirstRank, retval, masterslices, idx>>

\* lines 514-517: BFs is None
ReturnFlatSlices ==
    /\ tpc = "checked"
    /\ BFs = <<>>
    /\ result' = [status |-> "returned", retval |-> <<>>,
                  slices |-> FlatSlices(scen_count, n_proc),
                  FirstRank |-> <<>>, none |-> {"retval", "FirstRank"}]
    /\ tpc' = "returned"
    /\ UNCHANGED <<inputs, tree, TermRanks, FirstRank, retval, masterslices, idx>>

\* lines 522-523
MakeTree ==
    /\ tpc = "checked"
    /\ BFs # <<>>
    /\ ScenNames' = NamesFor(scen_count)
    /\ IF ScenTreeAsserts(BFs, ScenNames')
       THEN tree' = ScenTree(BFs, ScenNames') /\ tpc' = "tree" /\ UNCHANGED result
       ELSE tpc' = "raised" /\ result' = Raised("AssertionError") /\ UNCHANGED tree
    /\ UNCHANGED <<scen_count, BFs, n_proc, myrank, TermRanks, FirstRank,
                   retval, masterslices, idx>>

\* line 524: the attribute is looked up on the tree; when the class defines
\* it, control passes to the method's first line
CallTreeMethod ==
    /\ tpc = "tree"
    /\ IF CalledMethod \notin ScenTreeMethods
       THEN tpc' = "raised" /\ result' = Raised("AttributeError")
       ELSE tpc' = "built" /\ UNCHANGED result
    /\ UNCHANGED <<inputs, tree, TermRanks, FirstRank, retval, masterslices, idx>>

\* ------------------------------------------------------- specifications
\* every rank runs spin_the_wheel
Init == WheelInit /\ TreeIdle

Next ==
    \/ \E g \in Ranks : CheckKeys(g) /\ UNCHANGED treeVars
    \/ \E g \in Ranks : CheckProcCount(g) /\ UNCHANGED treeVars
    \/ \E g \in Ranks : SplitInterCall(g) /\ UNCHANGED treeVars
    \/ \E g \in Ranks : SplitInterReturn(g) /\ UNCHANGED treeVars
    \/ \E g \in Ranks : SplitIntraCall(g) /\ UNCHANGED treeVars
    \/ \E g \in Ranks : SplitIntraReturn(g) /\ UNCHANGED treeVars
    \/ \E g \in Ranks : AssignRole(g) /\ UNCHANGED treeVars
    \/ \E g \in Ranks : Construct(g) /\ UNCHANGED treeVars
    \/ \E g \in Ranks : MakeWindowsCall(g) /\ UNCHANGED treeVars
    \/ \E g \in Ranks : MakeWindowsReturn(g) /\ UNCHANGED treeVars
    \/ \E g \in Ranks : SetupHub(g) /\ UNCHANGED treeVars
    \/ \E g \in Ranks : MainCall(g) /\ UNCHANGED treeVars
    \/ \E g \in Ranks : MainReturn(g) /\ UNCHANGED treeVars
    \/ \E g \in Ranks : SendTerminate(g) /\ UNCHANGED treeVars
    \/ \E g \in Ranks : Finalize(g) /\ UNCHANGED treeVars
    \/ \E g \in Ranks : BarrierCall(g) /\ UNCHANGED treeVars
    \/ \E g \in Ranks : BarrierReturn(g) /\ UNCHANGED treeVars
    \/ \E g \in Ranks : HubFinalize(g) /\ UNCHANGED treeVars
    \/ \E g \in Ranks : FreeWindows(g) /\ UNCHANGED treeVars
    \/ \E g \in Ranks : Return(g) /\ UNCHANGED treeVars

Spec == Init /\ [][Next]_vars

\* one step of rank g's run of spin_the_wheel
RankStep(g) ==
    \/ CheckKeys(g) \/ CheckProcCount(g)
    \/ SplitInterCall(g) \/ SplitInterReturn(g)
    \/ SplitIntraCall(g) \/ SplitIntraReturn(g)
    \/ AssignRole(g) \/ Construct(g)
    \/ MakeWindowsCall(g) \/ MakeWindowsReturn(g) \/ SetupHub(g)
    \/ MainCall(g) \/ MainReturn(g) \/ SendTerminate(g) \/ Finalize(g)
    \/ BarrierCall(g) \/ BarrierReturn(g)
    \/ HubFinalize(g) \/ FreeWindows(g) \/ Return(g)

\* the positions of a rank in spin_the_wheel
Labels ==
    {"start", "make_comms", "RuntimeError", "split_inter", "in_split_inter",
     "split_intra", "in_split_intra", "assign", "IndexError", "construct",
     "make_windows", "in_make_windows", "setup_hub", "main", "in_main",
     "send_terminate", "finalize", "Barrier", "in_Barrier", "hub_finalize",
     "free_windows", "return", "done"}

\* rank g can take its next step: it has neither returned nor raised, and it
\* is not blocked in a collective (the two Splits, make_windows(), Barrier())
\* or in main()
Runnable(g) ==
    /\ g \in Ranks
    /\ pc[g] \notin {"done", "RuntimeError", "IndexError"}
    /\ pc[g] = "in_split_inter" => Ranks \subseteq arrived["split_inter"]
    /\ pc[g] = "in_split_intra" => Ranks \subseteq arrived["split_intra"]
    /\ pc[g] = "in_make_windows" => WindowsComm(g) \subseteq arrived["make_windows"]
    /\ pc[g] = "in_main" => MainMayReturn(g)
    /\ pc[g] = "in_Barrier" => BarrierComm(g) \subseteq arrived["Barrier"]

\* rank g moves on: the steps of Next that change pc[g] are those of
\* RankStep(g)
Advances(g) == \E l \in Labels \ {pc[g]} : pc' = [pc EXCEPT ![g] = l]

\* Runnable(g) is the enabling condition of RankStep(g)
RunnableIsEnabled ==
    \A g \in 0 .. (MaxWorld - 1) :
        Runnable(g) <=> ENABLED <<g \in Ranks /\ RankStep(g) /\ UNCHANGED treeVars>>_vars

\* every rank is a process of its own that keeps running: a rank that stays
\* runnable eventually moves on
Fairness == \A g \in 0 .. (MaxWorld - 1) : WF_pc(Runnable(g) /\ Advances(g))

LiveSpec == Init /\ [][Next]_vars /\ Fairness

\* a _ScenTree is built and scen_names_to_ranks is called on it
TreeSpecInit == WheelIdle /\ TreeInit

TreeNext ==
    \/ BuildTree /\ UNCHANGED wheelVars
    \/ ReturnSingleRank /\ UNCHANGED wheelVars
    \/ AssignTermRanks /\ UNCHANGED wheelVars
    \/ TermNodeStep /\ UNCHANGED wheelVars
    \/ RestNodeStep /\ UNCHANGED wheelVars
    \/ ReturnResult /\ UNCHANGED wheelVars

TreeSpec == TreeSpecInit /\ [][TreeNext]_vars

\* scens_to_ranks is called
FlatSpecInit == WheelIdle /\ FlatInit

FlatNext ==
    \/ CheckScenCount /\ UNCHANGED wheelVars
    \/ ReturnFlatSlices /\ UNCHANGED wheelVars
    \/ MakeTree /\ UNCHANGED wheelVars
    \/ CallTreeMethod /\ UNCHANGED wheelVars

FlatSpec == FlatSpecInit /\ [][FlatNext]_vars

\* ======================================================== spin_the_wheel
\* claims about spin_the_wheel and make_comms, checked under Spec

Has(g, op) == \E i \in 1 .. Len(log[g]) : log[g][i] = op
Count(g, op) == Cardinality({i \in 1 .. Len(log[g]) : log[g][i] = op})
Before(g, op1, op2) ==
    \A j \in 1 .. Len(log[g]) :
        log[g][j] = op2 => \E i \in 1 .. (j - 1) : log[g][i] = op1
Members(comm) == {comm[i] : i \in 1 .. Len(comm)}

\* C1: no rank calls free_windows() until every rank of the world has
\* returned from finalize() and reached fullcomm.Barrier().
C1_NoTeardownBeforeBarrier ==
    \A g \in Ranks :
        Has(g, "free_windows") =>
            \A h \in Ranks : Has(h, "finalize") /\ h \in arrived["Barrier"]

\* a rank of one cylinder has freed its windows while a rank of another
\* cylinder is still inside the barrier
C1_Witness ==
    \E g, h \in Ranks :
        /\ g \div (Len(list_of_spoke_dict) + 1) # h \div (Len(list_of_spoke_dict) + 1)
        /\ Has(g, "free_windows")
        /\ pc[h] = "in_Barrier"

\* C2 (as claimed): no rank enters main() before every rank of the world has
\* completed make_windows().
C2_WorldWindowsBeforeMain ==
    \A g \in Ranks :
        Has(g, "main") => \A h \in Ranks : Has(h, "make_windows.return")

\* C2 (amended): no rank enters main() before every rank of its own cylinder
\* has entered make_windows().
C2_CylinderWindowsBeforeMain ==
    \A g \in Ranks :
        Has(g, "main") =>
            \A h \in Ranks :
                h \div (Len(list_of_spoke_dict) + 1) = g \div (Len(list_of_spoke_dict) + 1)
                    => Has(h, "make_windows")

\* a spoke is in main() while a rank of another cylinder has not reached
\* make_windows()
C2_Witness ==
    \E g, h \in Ranks :
        /\ g % (Len(list_of_spoke_dict) + 1) # 0
        /\ g \div (Len(list_of_spoke_dict) + 1) # h \div (Len(list_of_spoke_dict) + 1)
        /\ pc[g] = "in_main"
        /\ pc[h] = "make_windows"

\* C3: each hub rank calls send_terminate() exactly once and only after its
\* own main() has returned; no spoke rank calls send_terminate() or
\* setup_hub().
C3_TerminateOnceByHub ==
    \A g \in Ranks :
        IF g % (Len(list_of_spoke_dict) + 1) = 0
        THEN /\ Count(g, "send_terminate") <= 1
             /\ Before(g, "main.return", "send_terminate")
             /\ pc[g] \in {"finalize", "Barrier", "in_Barrier", "hub_finalize",
                           "free_windows", "return", "done"}
                    => Count(g, "send_terminate") = 1
        ELSE /\ ~Has(g, "send_terminate")
             /\ ~Has(g, "setup_hub")

\* the hub of a second cylinder has signalled and one of its spokes is done
C3_Witness ==
    \E g, h \in Ranks :
        /\ g > 0
        /\ g % (Len(list_of_spoke_dict) + 1) = 0
        /\ h \div (Len(list_of_spoke_dict) + 1) = g \div (Len(list_of_spoke_dict) + 1)
        /\ h # g
        /\ Has(g, "send_terminate")
        /\ pc[h] = "done"

\* C4: when the world size is a multiple of spokeCount+1, make_comms gives
\* cylinders of spokeCount+1 ranks and role-groups of worldSize/(spokeCount+1)
\* ranks, every rank is in exactly one of each, and position 0 of every
\* cylinder is the rank with global rank mod (spokeCount+1) = 0.
C4_Topology ==
    (\A g \in Ranks : rank_inter[g] >= 0) =>
        LET k == Len(list_of_spoke_dict) + 1
            Cylinders == {Members(intercomm[h]) : h \in Ranks}
            RoleGroups == {Members(intracomm[h]) : h \in Ranks}
        IN  /\ n_world % k = 0
            /\ \A g \in Ranks :
                  /\ Len(intercomm[g]) = k
                  /\ Cardinality(Members(intercomm[g])) = k
                  /\ Len(intracomm[g]) = n_world \div k
                  /\ Cardinality(Members(intracomm[g])) = n_world \div k
                  /\ Cardinality({c \in Cylinders : g \in c}) = 1
                  /\ Cardinality({c \in RoleGroups : g \in c}) = 1
                  /\ g \in Members(intercomm[g])
                  /\ g \in Members(intracomm[g])
                  /\ intercomm[g][1] % k = 0
                  /\ (rank_inter[g] = 0) = (g % k = 0)

\* every rank of a world of several cylinders with spokes has its two
\* communicators
C4_Witness ==
    /\ \A g \in Ranks : rank_inter[g] >= 0
    /\ Len(list_of_spoke_dict) >= 1
    /\ n_world > Len(list_of_spoke_dict) + 1

\* C5: rank g is the hub iff g mod (n+1) = 0 and otherwise spoke r = g mod
\* (n+1) configured from list_of_spoke_dict[r-1]; the dictionary returned is
\* the one that configured the rank; only the hub is constructed with the
\* list of spoke dictionaries.
C5_RoleOf(g) ==
    LET r == g % (Len(list_of_spoke_dict) + 1)
        d == IF r = 0 THEN hub_dict ELSE list_of_spoke_dict[r]
    IN  /\ r # 0 => d.name = "spoke_dict" /\ d.at = r - 1
        /\ spcomm[g].args # 0 =>
              /\ spcomm[g].class = <<d, IF r = 0 THEN "hub_class" ELSE "spoke_class">>
              /\ spcomm[g].opt.class = <<d, "opt_class">>
              /\ spcomm[g].args = (IF r = 0 THEN 5 ELSE 4)
              /\ r = 0 => spcomm[g].spokes = list_of_spoke_dict
        /\ pc[g] = "done" =>
              /\ ret[g].opt_dict = d
              /\ ret[g].spcomm = spcomm[g]
              /\ spcomm[g].args # 0

C5_RoleAssignment == \A g \in Ranks : C5_RoleOf(g)

\* a spoke of a second cylinder has returned
C5_Witness ==
    \E g \in Ranks :
        /\ g > Len(list_of_spoke_dict) + 1
        /\ g % (Len(list_of_spoke_dict) + 1) # 0
        /\ pc[g] = "done"

\* C6: with a required key missing or a world size that is no multiple of
\* len(list_of_spoke_dict)+1, a rank ends in the configuration error before
\* any Split, before any object is constructed, and calls no lifecycle
\* operation.
C6_BadConfig ==
    \/ "hub_class" \notin hub_dict.keys
    \/ "opt_class" \notin hub_dict.keys
    \/ \E i \in 1 .. Len(list_of_spoke_dict) :
          \/ "spoke_class" \notin list_of_spoke_dict[i].keys
          \/ "opt_class" \notin list_of_spoke_dict[i].keys
    \/ n_world % (Len(list_of_spoke_dict) + 1) # 0

C6_ConfigErrorFirst ==
    C6_BadConfig =>
        \A g \in Ranks :
            /\ pc[g] \in {"start", "make_comms", "RuntimeError"}
            /\ \A c \in DOMAIN arrived : g \notin arrived[c]
            /\ intercomm[g] = NoComm
            /\ intracomm[g] = NoComm
            /\ opt[g] = NoOpt
            /\ spcomm[g] = NoSpcomm
            /\ log[g] = <<>>

\* a rank has raised for a missing spoke key, another for the process count
C6_Witness ==
    \E g \in Ranks :
        /\ pc[g] = "RuntimeError"
        /\ \E i \in 1 .. Len(list_of_spoke_dict) :
              "opt_class" \notin list_of_spoke_dict[i].keys

\* checked under LiveSpec
C15_AllReturned ==
    \A g \in Ranks :
        /\ pc[g] = "done"
        /\ g \in arrived["Barrier"]
        /\ Has(g, "free_windows")

\* C15: under fair scheduling, when the configuration raises no error (every
\* hub's main() returns, every spoke's once its hub has signalled
\* termination), every rank eventually passes the world barrier, calls
\* free_windows() and returns from spin_the_wheel.
C15_EventuallyReturns == ~C6_BadConfig ~> C15_AllReturned

\* two cylinders of a hub and a spoke have run to the end, both spokes
\* having left main() after their hub's signal
C15_Witness ==
    /\ n_world = 4
    /\ Len(list_of_spoke_dict) = 1
    /\ C15_AllReturned
    /\ \A g \in {1, 3} : Has(g, "main.return") /\ ~Has(g, "send_terminate")

\* ===================================================== scen_names_to_ranks
\* claims about _ScenTree.scen_names_to_ranks, checked under TreeSpec

\* the scenario names with indices in the node's [scenfirst, scenlast]
NamesInRange(nd) == {ScenNames[s + 1] : s \in nd.scenfirst .. nd.scenlast}

\* C7: whenever scen_names_to_ranks returns, for every node the keys of the
\* node's sub-mapping are exactly the scenario names with indices in the
\* node's [scenfirst, scenlast] range, the single-rank case included.
C7_NodeKeysEqualRange ==
    tpc = "returned" =>
        \A i \in 1 .. Len(tree.nonleaves) :
            /\ tree.nonleaves[i].name \in DOMAIN result.retval
            /\ DOMAIN result.retval[tree.nonleaves[i].name]
                  = NamesInRange(tree.nonleaves[i])

\* C8: whenever scen_names_to_ranks returns, every node that has a scenario
\* in its sub-mapping records for it the rank that ROOT records.
C8_NodesAgreeWithRoot ==
    tpc = "returned" =>
        /\ ROOT \in DOMAIN result.retval
        /\ \A nm \in DOMAIN result.retval :
              \A sn \in DOMAIN result.retval[nm] :
                  /\ sn \in DOMAIN result.retval[ROOT]
                  /\ result.retval[nm][sn] = result.retval[ROOT][sn]

\* returned for a tree of three stages with several terminal nodes under an
\* inner node, on several ranks, the last terminal node's ranks not from 0
C8_Witness ==
    /\ tpc = "returned"
    /\ n_proc >= 2
    /\ Len(BFs) = 3
    /\ Len(tree.NonLeafTerminals) >= 2
    /\ \E sn \in DOMAIN result.retval[<<0, 1>>] : result.retval[<<0, 1>>][sn] > 0

\* C9: the result of scen_names_to_ranks does not depend on myrank, for
\* every n_proc >= 1.
C9_IndependentOfMyrank ==
    tpc \in {"returned", "raised"} =>
        \A r \in 0 .. MaxMyRank : scen_names_to_ranks(tree, n_proc, r) = result

\* C11: in every tree _ScenTree builds, the ranges of the children of a
\* node, taken in order, start at the node's scenfirst, follow one another
\* without gap or overlap, and end at the node's scenlast; also for the
\* children of nodes whose scenfirst is not 0.
C11_KidsPartitionRange ==
    \A i \in 1 .. Len(tree.nonleaves) :
        LET nd == tree.nonleaves[i]
            n == Len(nd.kids)
        IN  n > 0 =>
               /\ nd.kids[1].scenfirst = nd.scenfirst
               /\ nd.kids[n].scenlast = nd.scenlast
               /\ \A k \in 1 .. n : nd.kids[k].scenfirst <= nd.kids[k].scenlast
               /\ \A k \in 1 .. (n - 1) :
                     nd.kids[k + 1].scenfirst = nd.kids[k].scenlast + 1

\* C13: for a tree of three or more stages on at least max(2, number of
\* terminal nodes) ranks, scen_names_to_ranks raises no error, and on return
\* every node that is neither ROOT nor terminal maps each scenario of its
\* range to the rank ROOT records for it and has the first rank of its
\* first child.
C13_InnerNodesAssigned ==
    (/\ Len(BFs) >= 3
     /\ tree # NoTree
     /\ n_proc >= 2
     /\ n_proc >= Len(tree.NonLeafTerminals)) =>
        /\ tpc # "raised"
        /\ tpc = "returned" =>
              \A i \in 1 .. Len(tree.nonleaves) :
                  LET nd == tree.nonleaves[i]
                  IN  (nd.name # ROOT /\ ~IsTerminal(nd, BFs)) =>
                         /\ nd.name \in DOMAIN result.retval
                         /\ \A sn \in NamesInRange(nd) :
                               /\ sn \in DOMAIN result.retval[nd.name]
                               /\ sn \in DOMAIN result.retval[ROOT]
                               /\ result.retval[nd.name][sn] = result.retval[ROOT][sn]
                         /\ nd.name \in DOMAIN result.FirstRank
                         /\ nd.kids[1].name \in DOMAIN result.FirstRank
                         /\ result.FirstRank[nd.name] = result.FirstRank[nd.kids[1].name]

\* C14: on n_proc >= 2 ranks with at least one rank per terminal node,
\* terminal node i of T (in tree order, from 0) receives the ranks
\* [floor(i*n_proc/T), floor((i+1)*n_proc/T)): non-empty ranges that follow
\* one another and together are exactly 0 .. n_proc-1; its recorded first
\* rank is the lower end of its range.
C14_TermRanksPartition ==
    (/\ TermRanks # <<>>
     /\ n_proc >= 2
     /\ n_proc >= Len(tree.NonLeafTerminals)) =>
        LET T == Len(tree.NonLeafTerminals)
        IN  /\ Len(TermRanks) = T
            /\ \A i \in 1 .. T :
                  /\ TermRanks[i].start = ((i - 1) * n_proc) \div T
                  /\ TermRanks[i].stop = (i * n_proc) \div T
                  /\ TermRanks[i].start < TermRanks[i].stop
                  /\ tree.NonLeafTerminals[i].name \in DOMAIN FirstRank
                  /\ FirstRank[tree.NonLeafTerminals[i].name] = TermRanks[i].start
            /\ \A i \in 1 .. (T - 1) : TermRanks[i + 1].start = TermRanks[i].stop
            /\ UNION {RangeSet(TermRanks[i]) : i \in 1 .. T} = 0 .. (n_proc - 1)

\* ========================================================== scens_to_ranks
\* claims about scens_to_ranks, checked under FlatSpec

\* C10: without BFs, scens_to_ranks raises if scen_count < n_proc and
\* otherwise returns n_proc ranges in rank order, range i being
\* [floor(i*scen_count/n_proc), floor((i+1)*scen_count/n_proc)), pairwise
\* disjoint and together exactly the indices 0 .. scen_count-1.
C10_FlatPartition ==
    (BFs = <<>> /\ tpc \in {"returned", "raised"}) =>
        IF scen_count < n_proc
        THEN tpc = "raised" /\ result.status = "RuntimeError"
        ELSE /\ tpc = "returned"
             /\ Len(result.slices) = n_proc
             /\ \A i \in 1 .. n_proc :
                   /\ result.slices[i].start = ((i - 1) * scen_count) \div n_proc
                   /\ result.slices[i].stop = (i * scen_count) \div n_proc
             /\ \A i, j \in 1 .. n_proc :
                   i # j => RangeSet(result.slices[i]) \cap RangeSet(result.slices[j]) = {}
             /\ UNION {RangeSet(result.slices[i]) : i \in 1 .. n_proc}
                   = 0 .. (scen_count - 1)

\* C12: called with BFs whose product is scen_count and n_proc <= scen_count,
\* scens_to_ranks does not end in an error, and what it returns is the
\* slices and the node -> (scenario -> rank) mapping that
\* scen_names_to_ranks computes on the names ID0 .. ID(scen_count-1).
C12_TreePathReturns ==
    (BFs # <<>> /\ Prod(BFs) = scen_count /\ n_proc <= scen_count) =>
        /\ tpc # "raised"
        /\ tpc = "returned" =>
              LET r == scen_names_to_ranks(ScenTree(BFs, NamesFor(scen_count)),
                                           n_proc, myrank)
              IN  /\ r.status = "returned"
                  /\ result.slices = r.slices
                  /\ result.retval = r.retval

====
